---- MODULE Spec2Model ----
(***************************************************************************)
(* A state-machine model of PhotoboothTemplate.py: TemplateManager         *)
(* (directory scan and iteration), TemplateReader (load, validate, parse,  *)
(* getMaxImageSize) and ImageProcessor (processImages, hex_to_rgb).        *)
(*                                                                         *)
(* Conventions.  An optional Python value is a sequence of length <= 1:    *)
(* <<>> is None and <<v>> is the value v.  A Python str that the code      *)
(* parses (int(...), hex_to_rgb) is a sequence of one-character strings;   *)
(* a str the code only stores is a TLA+ string.  A raised exception is a   *)
(* record [kind, msg]; NoExc means that nothing was raised.                *)
(***************************************************************************)
EXTENDS Integers, Sequences, FiniteSets, TLC

VARIABLES
    schemaFile,    \* state of PhotoTemplate.xsd: "missing" | "malformed" | "invalid" | "ok"
    dirList,       \* os.listdir(dirname): the template packages, in enumeration order
    listError,     \* the exception os.listdir(dirname) raises, NoExc when it lists
    mpc,           \* position of TemplateManager.__init__ (or "direct": reader built by a caller)
    dirIdx,        \* index in dirList of the package being read
    templateList,  \* TemplateManager.templateList
    mgrRaised,     \* exception that left TemplateManager.__init__
    rpc,           \* position of TemplateReader.__init__
    reader,        \* the TemplateReader object under construction / in use
    childIdx,      \* loop position of __parsePhotoList
    raised,        \* exception that left TemplateReader.__init__
    maxSize,       \* result of getMaxImageSize
    count,         \* TemplateManager.count (set by __iter__)
    loops,         \* the callers iterating over the manager: position, items seen, late calls
    hexValue,      \* argument of hex_to_rgb
    hexResult,     \* outcome of hex_to_rgb
    files,         \* image files on disk, by path
    heap,          \* PIL image objects, by identity
    imageList,     \* argument of processImages: identities of the caller's images
    cpc,           \* position of the ImageProcessor call in progress
    imgIdx,        \* loop variable i of processImages
    mImg,          \* identity of the canvas image (0 before Image.new)
    composite      \* outcome of processImages

readerVars == <<rpc, reader, childIdx, raised>>
mgrVars == <<mpc, dirIdx, templateList, mgrRaised>>
inputVars == <<schemaFile, dirList, listError>>
iterVars == <<count, loops>>
hexVars == <<hexValue, hexResult>>
compVars == <<files, heap, imageList, cpc, imgIdx, mImg, composite>>
vars == <<schemaFile, dirList, listError, mpc, dirIdx, templateList, mgrRaised, rpc, reader,
          childIdx, raised, maxSize, count, loops, hexValue, hexResult, files,
          heap, imageList, cpc, imgIdx, mImg, composite>>

(***************************************************************************)
(* Python values                                                           *)
(***************************************************************************)
None == <<>>
Some(v) == <<v>>
IsNone(o) == Len(o) = 0
Val(o) == o[1]

NoExc == [kind |-> "none", msg |-> ""]
Exc(k, m) == [kind |-> k, msg |-> m]

\* class TemplateError(Exception)
TemplateError(m) == Exc("TemplateError", m)

Ok(v) == [ok |-> TRUE, val |-> v, exc |-> NoExc]
Err(e) == [ok |-> FALSE, val |-> 0, exc |-> e]

\* The decimal digits of other scripts that int() takes for 0 to 9, a row for
\* each script whose digits a string of this module can hold
ScriptDigits == <<
    <<"۰", "۱", "۲", "۳", "۴", "۵", "۶", "۷", "۸", "۹">>,
    <<"߀", "߁", "߂", "߃", "߄", "߅", "߆", "߇", "߈", "߉">>,
    <<"০", "১", "২", "৩", "৪", "৫", "৬", "৭", "৮", "৯">>,
    <<"૦", "૧", "૨", "૩", "૪", "૫", "૬", "૭", "૮", "૯">>,
    <<"௦", "௧", "௨", "௩", "௪", "௫", "௬", "௭", "௮", "௯">>,
    <<"೦", "೧", "೨", "೩", "೪", "೫", "೬", "೭", "೮", "೯">>,
    <<"෦", "෧", "෨", "෩", "෪", "෫", "෬", "෭", "෮", "෯">>,
    <<"໐", "໑", "໒", "໓", "໔", "໕", "໖", "໗", "໘", "໙">>,
    <<"႐", "႑", "႒", "႓", "႔", "႕", "႖", "႗", "႘", "႙">>,
    <<"០", "១", "២", "៣", "៤", "៥", "៦", "៧", "៨", "៩">>,
    <<"᧐", "᧑", "᧒", "᧓", "᧔", "᧕", "᧖", "᧗", "᧘", "᧙">>,
    <<"᪀", "᪁", "᪂", "᪃", "᪄", "᪅", "᪆", "᪇", "᪈", "᪉">>,
    <<"᪐", "᪑", "᪒", "᪓", "᪔", "᪕", "᪖", "᪗", "᪘", "᪙">>,
    <<"᮰", "᮱", "᮲", "᮳", "᮴", "᮵", "᮶", "᮷", "᮸", "᮹">>,
    <<"꣐", "꣑", "꣒", "꣓", "꣔", "꣕", "꣖", "꣗", "꣘", "꣙">>,
    <<"꧐", "꧑", "꧒", "꧓", "꧔", "꧕", "꧖", "꧗", "꧘", "꧙">>,
    <<"꧰", "꧱", "꧲", "꧳", "꧴", "꧵", "꧶", "꧷", "꧸", "꧹">>,
    <<"꯰", "꯱", "꯲", "꯳", "꯴", "꯵", "꯶", "꯷", "꯸", "꯹">> >>

\* The value of each digit; int() takes the letters in either case, and the
\* decimal digits of every script.
DigitVal == "0" :> 0 @@ "1" :> 1 @@ "2" :> 2 @@ "3" :> 3 @@ "4" :> 4 @@
            "5" :> 5 @@ "6" :> 6 @@ "7" :> 7 @@ "8" :> 8 @@ "9" :> 9 @@
            "a" :> 10 @@ "b" :> 11 @@ "c" :> 12 @@ "d" :> 13 @@ "e" :> 14 @@
            "f" :> 15 @@
            "A" :> 10 @@ "B" :> 11 @@ "C" :> 12 @@ "D" :> 13 @@ "E" :> 14 @@
            "F" :> 15 @@
            [c \in {ScriptDigits[i][j] : i \in DOMAIN ScriptDigits, j \in 1..10} |->
                CHOOSE v \in 0..9 : \E i \in DOMAIN ScriptDigits : ScriptDigits[i][v + 1] = c]
HexDigits == DOMAIN DigitVal

\* The blanks int() drops around a number: the characters of str.isspace()
\* other than U+001C to U+001F.  After the five with an escape come U+000B,
\* U+0085, U+00A0 and U+1680; the blanks from U+2000 on cannot be written in a
\* string of this module.
Whitespace == {" ", "\t", "\n", "\r", "\f", "", "", " ", " "}

\* str.lstrip(chars) and its mirror image
RECURSIVE LStrip(_, _)
LStrip(s, chars) == IF Len(s) > 0 /\ Head(s) \in chars THEN LStrip(Tail(s), chars) ELSE s

RECURSIVE RStrip(_, _)
RStrip(s, chars) ==
    IF Len(s) > 0 /\ s[Len(s)] \in chars THEN RStrip(SubSeq(s, 1, Len(s) - 1), chars) ELSE s

RECURSIVE Number(_, _)
Number(s, base) ==
    IF Len(s) = 0 THEN 0
    ELSE Number(SubSeq(s, 1, Len(s) - 1), base) * base + DigitVal[s[Len(s)]]

IsDigitChar(c) == c # "_"

\* The digits of an int() literal: one or more digits of the base, where
\* single underscores may stand between digits
ValidDigits(w, base) ==
    /\ Len(w) > 0
    /\ \A i \in 1..Len(w) :
          \/ w[i] = "_"
          \/ (w[i] \in HexDigits /\ DigitVal[w[i]] < base)
    /\ w[1] # "_" /\ w[Len(w)] # "_"
    /\ \A i \in 1..(Len(w) - 1) : ~(w[i] = "_" /\ w[i + 1] = "_")

\* An int() literal without its sign: for base 16 an optional 0x or 0X (the
\* zero of any script), which one underscore may follow, comes before the
\* digits
HasPrefix(u, base) ==
    /\ base = 16 /\ Len(u) >= 2
    /\ u[1] \in HexDigits /\ DigitVal[u[1]] = 0
    /\ u[2] \in {"x", "X"}
DigitsOf(u, base) ==
    IF ~HasPrefix(u, base) THEN u
    ELSE IF Len(u) >= 3 /\ u[3] = "_" THEN SubSeq(u, 4, Len(u))
    ELSE SubSeq(u, 3, Len(u))

\* The sign of an int() literal
IsSigned(t) == Len(t) > 0 /\ t[1] \in {"+", "-"}
Unsigned(t) == IF IsSigned(t) THEN Tail(t) ELSE t

\* int() of a literal without surrounding whitespace
PyIntLiteral(t, base) ==
    IF ValidDigits(DigitsOf(Unsigned(t), base), base)
    THEN Ok((IF IsSigned(t) /\ t[1] = "-" THEN -1 ELSE 1)
            * Number(SelectSeq(DigitsOf(Unsigned(t), base), IsDigitChar), base))
    ELSE Err(Exc("ValueError", "invalid literal for int()"))

\* int(s, base) of a str, for base 10 or 16: surrounding whitespace is dropped,
\* what is left must be a literal.  Anything else is a ValueError.
PyIntBase(s, base) == PyIntLiteral(RStrip(LStrip(s, Whitespace), Whitespace), base)

\* int(s) of a str
PyIntStr(s) == PyIntBase(s, 10)

\* int(elem.get(attr)): get returns None for an absent attribute and int(None)
\* is a TypeError.
PyInt(o) ==
    IF IsNone(o) THEN Err(Exc("TypeError", "int() argument must be a string"))
    ELSE PyIntStr(Val(o))

(***************************************************************************)
(* Template packages: a directory holding template.xml                     *)
(***************************************************************************)
\* One child of the photos element, attribute values as written in the file.
Child(x, y, w, h, rot) == [x |-> x, y |-> y, width |-> w, height |-> h, rotation |-> rot]

Canvas(color, h, w, bg, fg, photos) ==
    [backgroundColor |-> color, height |-> h, width |-> w,
     backgroundPhoto |-> bg, foregroundPhoto |-> fg, photos |-> photos]

\* The elements under the root.  name, description and author are None when
\* the element is absent and Some(t) otherwise, t being its text: None for an
\* element without text, Some(string) else.  previewImage, and backgroundPhoto
\* and foregroundPhoto of the canvas, are likewise None or Some(s), s being the
\* src attribute: None when it is not written.
Doc(name, descr, author, preview, canvas) ==
    [name |-> name, description |-> descr, author |-> author,
     previewImage |-> preview, canvas |-> canvas]

\* A directory entry: its name, the state of its template.xml ("missing" also
\* stands for an entry that is no directory, or an unreadable file), the parsed
\* document and the verdict xmlSchema.validate gives on it.
Package(dir, file, doc, valid) == [dir |-> dir, file |-> file, doc |-> doc, valid |-> valid]

\* os.path.join-like concatenation: TemplateDir + os.path.sep + src
Path(dir, src) == <<dir, src>>

\* TemplateReader attributes after lines 110-122
UnsetReader(dir) ==
    [TemplateDir |-> dir, template_xml |-> None,
     templateName |-> None, description |-> None, author |-> None,
     previewImageFilename |-> None, backgroundColor |-> None,
     height |-> None, width |-> None, backgroundPhoto |-> None,
     foregroundPhoto |-> None, photoList |-> <<>>]

\* A TemplateReader that no constructor is working on.
NoReader == UnsetReader("")

\* The except clauses of TemplateReader.__init__: OSError and
\* etree.XMLSyntaxError become TemplateError, anything else passes through.
Translate(e) ==
    IF e.kind = "OSError" THEN TemplateError("Error reading template files.")
    ELSE IF e.kind = "XMLSyntaxError" THEN TemplateError("Error parsing template xml")
    ELSE e

\* etree.parse(self.TemplateFilename)
ParseXml(pkg) ==
    IF pkg.file = "missing" THEN Err(Exc("OSError", "Error reading file"))
    ELSE IF pkg.file = "malformed" THEN Err(Exc("XMLSyntaxError", "not well-formed"))
    ELSE Ok(pkg.doc)

\* __validateFile: parse the schema document, build the XMLSchema, validate.
ValidateFile(schema, pkg) ==
    IF schema = "missing" THEN Err(Exc("OSError", "Error reading file"))
    ELSE IF schema = "malformed" THEN Err(Exc("XMLSyntaxError", "not well-formed"))
    ELSE IF schema = "invalid" THEN Err(Exc("XMLSchemaParseError", "invalid schema"))
    ELSE Ok(pkg.valid)

\* A constructor that goes on to parse whatever validation returned.
ValidationIgnored(verdict) == TRUE

\* The test of line 132: parsing goes on only when validation returned True.
ValidationPassed(verdict) == verdict = TRUE

\* __parseFile up to the call of __parseCanvas: the text of an element that
\* has none, and the src of a previewImage that has none, is None and is
\* assigned as it is.
ParseFile(rd, doc) ==
    IF IsNone(doc.name)
    THEN [reader |-> rd, exc |-> Exc("AttributeError", "'NoneType' object has no attribute 'text'")]
    ELSE [reader |->
            [rd EXCEPT !.templateName = Val(doc.name),
                       !.description = IF IsNone(doc.description) THEN @ ELSE Val(doc.description),
                       !.author = IF IsNone(doc.author) THEN @ ELSE Val(doc.author),
                       !.previewImageFilename =
                            IF IsNone(doc.previewImage) THEN @ ELSE Val(doc.previewImage)],
          exc |-> NoExc]

\* self.TemplateDir + os.path.sep + elem.get("src") for a photo element: the
\* path, or the TypeError of the concatenation when the element has no src
ResolvedPath(dir, elem) ==
    IF IsNone(Val(elem))
    THEN Err(Exc("TypeError", "can only concatenate str (not \"NoneType\") to str"))
    ELSE Ok(Path(dir, Val(Val(elem))))

\* __parseCanvas up to the call of __parsePhotoList: each assignment that was
\* made before an exception stays.
ParseCanvas(rd, canvas) ==
    IF IsNone(canvas)
    THEN [reader |-> rd, exc |-> Exc("AttributeError", "'NoneType' object has no attribute 'get'")]
    ELSE
    LET c == Val(canvas)
        r1 == IF IsNone(c.backgroundColor) THEN rd
              ELSE [rd EXCEPT !.backgroundColor = c.backgroundColor]
        h == PyInt(c.height)
        w == PyInt(c.width)
        r2 == [r1 EXCEPT !.height = Some(h.val), !.width = Some(w.val)]
        bg == ResolvedPath(rd.TemplateDir, c.backgroundPhoto)
        r3 == IF IsNone(c.backgroundPhoto) THEN r2
              ELSE [r2 EXCEPT !.backgroundPhoto = Some(bg.val)]
        fg == ResolvedPath(rd.TemplateDir, c.foregroundPhoto)
    IN  IF ~h.ok THEN [reader |-> r1, exc |-> h.exc]
        ELSE IF ~w.ok THEN [reader |-> [r1 EXCEPT !.height = Some(h.val)], exc |-> w.exc]
        ELSE IF ~IsNone(c.backgroundPhoto) /\ ~bg.ok THEN [reader |-> r2, exc |-> bg.exc]
        ELSE IF IsNone(c.foregroundPhoto) THEN [reader |-> r3, exc |-> NoExc]
        ELSE IF ~fg.ok THEN [reader |-> r3, exc |-> fg.exc]
        ELSE [reader |-> [r3 EXCEPT !.foregroundPhoto = Some(fg.val)], exc |-> NoExc]

\* A parser that never reads the rotation attribute.
RotationNeverRead(attr) == Ok(0)

\* The rotation of one photo spec (lines 208-211)
Rotation(attr) == IF IsNone(attr) THEN Ok(0) ELSE PyInt(attr)

\* The body of the loop of __parsePhotoList for one child: the photoSpecTuple,
\* or the first exception in the order height, width, x, y, rotation.
PhotoSpec(child) ==
    LET h == PyInt(child.height)
        w == PyInt(child.width)
        x == PyInt(child.x)
        y == PyInt(child.y)
        rot == Rotation(child.rotation)
    IN  IF ~h.ok THEN h
        ELSE IF ~w.ok THEN w
        ELSE IF ~x.ok THEN x
        ELSE IF ~y.ok THEN y
        ELSE IF ~rot.ok THEN rot
        ELSE Ok([x |-> x.val, y |-> y.val, width |-> w.val, height |-> h.val,
                 rotation |-> rot.val])

(***************************************************************************)
(* TemplateReader.__init__, one action per step                            *)
(***************************************************************************)
Pkg == dirList[dirIdx]
Constructing == mpc \in {"direct", "reading"}

\* An exception raised inside the try block of __init__
Raise(e) == /\ rpc' = "raised"
            /\ raised' = Translate(e)

\* lines 110-122
InitFields ==
    /\ Constructing /\ rpc = "start"
    /\ reader' = UnsetReader(Pkg.dir)
    /\ rpc' = "load"
    /\ UNCHANGED <<childIdx, raised>>
    /\ UNCHANGED <<inputVars, mgrVars, maxSize, iterVars, hexVars, compVars>>

\* line 128
LoadXml ==
    /\ Constructing /\ rpc = "load"
    /\ LET r == ParseXml(Pkg)
       IN  IF r.ok
           THEN /\ reader' = [reader EXCEPT !.template_xml = Some(r.val)]
                /\ rpc' = "validate"
                /\ UNCHANGED raised
           ELSE /\ Raise(r.exc)
                /\ UNCHANGED reader
    /\ UNCHANGED childIdx
    /\ UNCHANGED <<inputVars, mgrVars, maxSize, iterVars, hexVars, compVars>>

\* lines 132-135
Validate ==
    /\ Constructing /\ rpc = "validate"
    /\ LET r == ValidateFile(schemaFile, Pkg)
       IN  IF ~r.ok THEN Raise(r.exc)
           ELSE IF ValidationPassed(r.val) THEN rpc' = "parse" /\ UNCHANGED raised
           ELSE Raise(TemplateError("Error: XML Validation failed. "))
    /\ UNCHANGED <<reader, childIdx>>
    /\ UNCHANGED <<inputVars, mgrVars, maxSize, iterVars, hexVars, compVars>>

\* lines 159-173
ParseFileStep ==
    /\ Constructing /\ rpc = "parse"
    /\ LET r == ParseFile(reader, Val(reader.template_xml))
       IN  /\ reader' = r.reader
           /\ IF r.exc = NoExc THEN rpc' = "canvas" /\ UNCHANGED raised
              ELSE Raise(r.exc)
    /\ UNCHANGED childIdx
    /\ UNCHANGED <<inputVars, mgrVars, maxSize, iterVars, hexVars, compVars>>

\* lines 175-196
ParseCanvasStep ==
    /\ Constructing /\ rpc = "canvas"
    /\ LET r == ParseCanvas(reader, Val(reader.template_xml).canvas)
       IN  /\ reader' = r.reader
           /\ IF r.exc = NoExc THEN rpc' = "photos" /\ UNCHANGED raised
              ELSE Raise(r.exc)
    /\ UNCHANGED childIdx
    /\ UNCHANGED <<inputVars, mgrVars, maxSize, iterVars, hexVars, compVars>>

Photos == Val(Val(reader.template_xml).canvas).photos

\* lines 197-203: the list is reset, then the children are enumerated
ParsePhotoListEnter ==
    /\ Constructing /\ rpc = "photos"
    /\ reader' = [reader EXCEPT !.photoList = <<>>]
    /\ IF IsNone(Photos)
       THEN /\ Raise(Exc("AttributeError", "'NoneType' object has no attribute 'getchildren'"))
            /\ UNCHANGED childIdx
       ELSE /\ childIdx' = 1
            /\ rpc' = IF Len(Val(Photos)) = 0 THEN "done" ELSE "photo"
            /\ UNCHANGED raised
    /\ UNCHANGED <<inputVars, mgrVars, maxSize, iterVars, hexVars, compVars>>

\* lines 204-214: one iteration of the loop
ParsePhotoSpec ==
    /\ Constructing /\ rpc = "photo"
    /\ LET r == PhotoSpec(Val(Photos)[childIdx])
       IN  IF r.ok
           THEN /\ reader' = [reader EXCEPT !.photoList = Append(@, r.val)]
                /\ childIdx' = childIdx + 1
                /\ rpc' = IF childIdx = Len(Val(Photos)) THEN "done" ELSE "photo"
                /\ UNCHANGED raised
           ELSE /\ Raise(r.exc)
                /\ UNCHANGED <<reader, childIdx>>
    /\ UNCHANGED <<inputVars, mgrVars, maxSize, iterVars, hexVars, compVars>>

ReaderNext ==
    \/ InitFields
    \/ LoadXml
    \/ Validate
    \/ ParseFileStep
    \/ ParseCanvasStep
    \/ ParsePhotoListEnter
    \/ ParsePhotoSpec

(***************************************************************************)
(* TemplateManager.__init__                                                *)
(***************************************************************************)
\* except TemplateError: the only exception kind the scan survives
Caught(e) == e.kind = "TemplateError"

\* lines 50-54: an exception of os.listdir leaves the constructor
MgrStart ==
    /\ mpc = "start"
    /\ templateList' = <<>>
    /\ IF listError = NoExc
       THEN /\ dirIdx' = 1
            /\ mpc' = "loop"
            /\ UNCHANGED mgrRaised
       ELSE /\ mgrRaised' = listError
            /\ mpc' = "raised"
            /\ UNCHANGED dirIdx
    /\ UNCHANGED <<inputVars, readerVars, maxSize, iterVars, hexVars, compVars>>

\* line 55: the next directory entry, or the end of the constructor
MgrNextDir ==
    /\ mpc = "loop"
    /\ IF dirIdx <= Len(dirList)
       THEN /\ mpc' = "reading"
            /\ rpc' = "start"
            /\ raised' = NoExc
       ELSE /\ mpc' = "done"
            /\ UNCHANGED <<rpc, raised>>
    /\ UNCHANGED <<dirIdx, templateList, mgrRaised, reader, childIdx>>
    /\ UNCHANGED <<inputVars, maxSize, iterVars, hexVars, compVars>>

\* line 58: the constructor returned
MgrAppend ==
    /\ mpc = "reading" /\ rpc = "done"
    /\ templateList' = Append(templateList, reader)
    /\ dirIdx' = dirIdx + 1
    /\ mpc' = "loop"
    /\ UNCHANGED mgrRaised
    /\ UNCHANGED <<inputVars, readerVars, maxSize, iterVars, hexVars, compVars>>

\* lines 59-60: the constructor raised
MgrExcept ==
    /\ mpc = "reading" /\ rpc = "raised"
    /\ IF Caught(raised)
       THEN /\ dirIdx' = dirIdx + 1
            /\ mpc' = "loop"
            /\ UNCHANGED mgrRaised
       ELSE /\ mgrRaised' = raised
            /\ mpc' = "raised"
            /\ UNCHANGED dirIdx
    /\ UNCHANGED templateList
    /\ UNCHANGED <<inputVars, readerVars, maxSize, iterVars, hexVars, compVars>>

ManagerNext ==
    \/ MgrStart
    \/ MgrNextDir
    \/ MgrAppend
    \/ MgrExcept
    \/ ReaderNext

(***************************************************************************)
(* Inputs                                                                  *)
(***************************************************************************)
MaxChildren == 2
MaxDirs == 2

SchemaStates == {"missing", "malformed", "invalid", "ok"}

RECURSIVE SeqsUpTo(_, _)
SeqsUpTo(S, n) ==
    IF n = 0 THEN {<<>>}
    ELSE LET shorter == SeqsUpTo(S, n - 1)
         IN  shorter \cup {Append(q, e) : q \in {r \in shorter : Len(r) = n - 1}, e \in S}

WidthAttrs == {Some(<<"2">>), Some(<<" ", "3">>), Some(<<"x">>)}
RotationAttrs == {None, Some(<<"0">>), Some(<<"9", "0">>), Some(<<"-", "5">>)}

Children ==
    {Child(Some(<<"0">>), Some(<<"1">>), w, Some(<<"1">>), rot) :
        w \in WidthAttrs, rot \in RotationAttrs}

\* Documents that differ in their photos element
PhotoDocs ==
    {Doc(Some(Some("strip")), None, None, None,
         Some(Canvas(None, Some(<<"2">>), Some(<<"2">>), None, None, Some(ps)))) :
        ps \in SeqsUpTo(Children, MaxChildren)}

OneChild == <<Child(Some(<<"1">>), Some(<<"0">>), Some(<<"2">>), Some(<<"1">>), None)>>

\* Documents that differ in the elements under the root (absent, without
\* text or src, or with one) and in the attributes of the canvas
ScalarDocs ==
    {Doc(name, descr, author, preview,
         Some(Canvas(color, h, Some(<<"4">>), None, None, Some(OneChild)))) :
        name \in {None, Some(None), Some(Some("strip"))},
        descr \in {None, Some(None), Some(Some("four in a row"))},
        author \in {None, Some(None), Some(Some("sm"))},
        preview \in {None, Some(None), Some(Some("preview.png"))},
        color \in {None, Some(<<"#", "f", "f", "f">>)},
        h \in {None, Some(<<"6">>), Some(<<"6", "p", "x">>)}}

\* Documents that differ in the photo elements of the canvas (absent, without
\* a src, or with one) and in what precedes them
ArtDocs ==
    {Doc(Some(text), None, None, None,
         Some(Canvas(color, Some(<<"6">>), w, bg, fg, Some(OneChild)))) :
        text \in {None, Some("strip")},
        color \in {None, Some(<<"#", "f", "f", "f">>)},
        w \in {Some(<<"4">>), Some(<<"x">>)},
        bg \in {None, Some(None), Some(Some("bg.png"))},
        fg \in {None, Some(None), Some(Some("fg.png"))}}

\* Documents without a canvas, or without a photos element
BareDocs ==
    {Doc(Some(Some("strip")), None, None, None, None),
     Doc(Some(Some("strip")), None, None, None,
         Some(Canvas(None, Some(<<"2">>), Some(<<"2">>), None, None, None)))}

Docs == PhotoDocs \cup ScalarDocs \cup ArtDocs \cup BareDocs

EmptyDoc == Doc(None, None, None, None, None)

\* What a directory entry can be: no readable template.xml, a malformed one, or
\* a document that the schema accepts or rejects.
Packages(dir, docs) ==
    {Package(dir, "missing", EmptyDoc, FALSE), Package(dir, "malformed", EmptyDoc, FALSE)}
    \cup {Package(dir, "ok", d, v) : d \in docs, v \in BOOLEAN}

\* The documents of the directory scan
ScanDocs ==
    {Doc(Some(Some("strip")), None, None, None,
         Some(Canvas(None, Some(<<"2">>), w, None, None, Some(OneChild)))) :
        w \in {Some(<<"2">>), Some(<<"x">>)}}

IdleReader ==
    /\ rpc = "idle" /\ reader = NoReader /\ childIdx = 0 /\ raised = NoExc
IdleManager ==
    /\ schemaFile = "ok" /\ dirList = <<>> /\ listError = NoExc
    /\ mpc = "idle" /\ dirIdx = 0 /\ templateList = <<>> /\ mgrRaised = NoExc
IdleMax == maxSize = None
IdleIter == count = None /\ loops = <<>>
IdleHex == hexValue = <<>> /\ hexResult = Err(NoExc)
IdleComp ==
    /\ files = <<>> /\ heap = <<>> /\ imageList = <<>>
    /\ cpc = "idle" /\ imgIdx = 0 /\ mImg = 0 /\ composite = Err(NoExc)

\* A caller constructs one TemplateReader on one directory.
InitReader ==
    /\ schemaFile \in SchemaStates
    /\ \E pkg \in Packages(1, Docs) : dirList = <<pkg>>
    /\ listError = NoExc
    /\ mpc = "direct" /\ dirIdx = 1 /\ templateList = <<>> /\ mgrRaised = NoExc
    /\ rpc = "start" /\ reader = NoReader /\ childIdx = 0 /\ raised = NoExc
    /\ IdleMax /\ IdleIter /\ IdleHex /\ IdleComp

SpecReader == InitReader /\ [][ReaderNext]_vars

\* What os.listdir raises on a directory it cannot list
ListErrors ==
    {Exc(k, "cannot list the directory") :
        k \in {"FileNotFoundError", "NotADirectoryError", "PermissionError"}}

\* A caller constructs a TemplateManager on a directory of packages, or on
\* something that cannot be listed.
InitManager ==
    /\ schemaFile \in SchemaStates
    /\ \/ /\ listError = NoExc
          /\ \E n \in 0..MaxDirs :
               dirList \in {q \in [1..n -> UNION {Packages(i, ScanDocs) : i \in 1..n}] :
                              \A i \in 1..n : q[i].dir = i}
       \/ /\ listError \in ListErrors
          /\ dirList = <<>>
    /\ mpc = "start" /\ dirIdx = 0 /\ templateList = <<>> /\ mgrRaised = NoExc
    /\ IdleReader
    /\ IdleMax /\ IdleIter /\ IdleHex /\ IdleComp

SpecManager == InitManager /\ [][ManagerNext]_vars

(***************************************************************************)
(* Properties of TemplateReader.__init__ and TemplateManager.__init__      *)
(***************************************************************************)
\* The Layout fields of a reader: everything but its directory and its XML tree
Layout(rd) == [rd EXCEPT !.TemplateDir = 0, !.template_xml = None]
LayoutUnset(rd) == Layout(rd) = Layout(NoReader)

\* What __validateFile returns for the package being read: True
ValidationReturnedTrue ==
    LET r == ValidateFile(schemaFile, Pkg) IN r.ok /\ r.val = TRUE

\* C1: every failure of the construction of a TemplateReader reaches the caller
\* as TemplateError and as no other kind of exception.
C1_OnlyTemplateError == rpc = "raised" => raised.kind = "TemplateError"

\* C2: the parse step runs only after validation returned true: no Layout field
\* is assigned before that, and when validation fails every field still holds
\* its initial value at the moment the error is raised.
C2_ParseOnlyAfterValidation ==
    /\ rpc \in {"load", "validate"} => LayoutUnset(reader)
    /\ rpc \in {"parse", "canvas", "photos", "photo", "done"} =>
            Pkg.file = "ok" /\ ValidationReturnedTrue
    /\ ~LayoutUnset(reader) => Pkg.file = "ok" /\ ValidationReturnedTrue
    /\ (rpc = "raised" /\ ~(Pkg.file = "ok" /\ ValidationReturnedTrue)) =>
            LayoutUnset(reader)

\* A document with a name and a canvas was rejected by the schema, and the
\* constructor raised with nothing assigned.
C2_Witness ==
    /\ rpc = "raised"
    /\ raised = TemplateError("Error: XML Validation failed. ")
    /\ Pkg.file = "ok" /\ ~Pkg.valid /\ schemaFile = "ok"
    /\ ~IsNone(Pkg.doc.name) /\ ~IsNone(Pkg.doc.canvas)
    /\ LayoutUnset(reader)

\* The integer each rotation attribute of the input documents stands for
RotationValue(attr) ==
    IF attr = None THEN 0
    ELSE IF attr = Some(<<"0">>) THEN 0
    ELSE IF attr = Some(<<"9", "0">>) THEN 90
    ELSE 0 - 5

\* C9: after a successful parse photoList has one PlacementSpec per child of
\* the photos element, in document order, and each one's rotation is 0 when the
\* attribute is absent and the attribute's integer value otherwise.
C9_OnePlacementPerChild ==
    rpc = "done" =>
        LET children == Val(Val(Pkg.doc.canvas).photos)
        IN  /\ Len(reader.photoList) = Len(children)
            /\ \A i \in 1..Len(children) :
                 /\ reader.photoList[i].rotation = RotationValue(children[i].rotation)
                 /\ Ok(reader.photoList[i].width) = PyInt(children[i].width)
                 /\ Ok(reader.photoList[i].height) = PyInt(children[i].height)
                 /\ Ok(reader.photoList[i].x) = PyInt(children[i].x)
                 /\ Ok(reader.photoList[i].y) = PyInt(children[i].y)

\* A parse of two photos, the first without a rotation and the second rotated
\* by 90 degrees and of another width, has finished.
C9_Witness ==
    /\ rpc = "done"
    /\ Len(reader.photoList) = 2
    /\ Val(Val(Pkg.doc.canvas).photos)[1].rotation = None
    /\ Val(Val(Pkg.doc.canvas).photos)[2].rotation = Some(<<"9", "0">>)
    /\ reader.photoList[1].width = 2
    /\ reader.photoList[2].width = 3
    /\ reader.photoList[2].rotation = 90

\* Whether the construction of a reader on a package ends without an
\* exception: the file loads, the schema loads and accepts it, and every step
\* of the parse succeeds.
Parses(pkg) ==
    /\ ParseXml(pkg).ok
    /\ ValidateFile(schemaFile, pkg).ok /\ ValidateFile(schemaFile, pkg).val = TRUE
    /\ ParseFile(NoReader, pkg.doc).exc = NoExc
    /\ ParseCanvas(NoReader, pkg.doc.canvas).exc = NoExc
    /\ ~IsNone(Val(pkg.doc.canvas).photos)
    /\ \A i \in 1..Len(Val(Val(pkg.doc.canvas).photos)) :
            PhotoSpec(Val(Val(pkg.doc.canvas).photos)[i]).ok

RECURSIVE ParsedDirs(_)
ParsedDirs(n) ==
    IF n = 0 THEN <<>>
    ELSE IF Parses(dirList[n]) THEN Append(ParsedDirs(n - 1), n)
    ELSE ParsedDirs(n - 1)

\* C3: the construction of a TemplateManager is never halted by a directory
\* that fails: it finishes, and templateList then holds exactly the readers of
\* the directories that parsed, fully populated, in enumeration order.
C3_ScanSurvivesEveryFailure ==
    /\ listError = NoExc => mpc # "raised"
    /\ mpc = "done" =>
        /\ [i \in 1..Len(templateList) |-> templateList[i].TemplateDir]
              = ParsedDirs(Len(dirList))
        /\ \A i \in 1..Len(templateList) :
              /\ ~IsNone(templateList[i].templateName)
              /\ ~IsNone(templateList[i].width) /\ ~IsNone(templateList[i].height)
              /\ Len(templateList[i].photoList) = 1

(***************************************************************************)
(* TemplateReader.getMaxImageSize                                          *)
(***************************************************************************)
\* A comparison that also replaces the maximum on an equal width.
AsWide(spec, best) == spec.width >= best[1]

\* The test of line 229
Wider(spec, best) == spec.width > best[1]

\* The loop of lines 228-230 from position i on, with maxSize = best so far
RECURSIVE ScanSizes(_, _, _)
ScanSizes(list, i, best) ==
    IF i > Len(list) THEN best
    ELSE ScanSizes(list, i + 1,
                   IF Wider(list[i], best) THEN <<list[i].width, list[i].height>> ELSE best)

MaxImageSize(list) == ScanSizes(list, 1, <<0, 0>>)

GetMaxImageSize ==
    /\ rpc = "done" /\ mpc = "direct" /\ maxSize = None
    /\ maxSize' = Some(MaxImageSize(reader.photoList))
    /\ UNCHANGED <<inputVars, mgrVars, readerVars, iterVars, hexVars, compVars>>

MaxPhotos == 3
MaxWidth == 2
MaxHeight == 2

Placement(x, y, w, h, rot) == [x |-> x, y |-> y, width |-> w, height |-> h, rotation |-> rot]

\* str(n) of an integer: the decimal digits, with a sign when negative
DigitChars == <<"0", "1", "2", "3", "4", "5", "6", "7", "8", "9">>
RECURSIVE Decimal(_)
Decimal(n) ==
    IF n < 0 THEN <<"-">> \o Decimal(0 - n)
    ELSE IF n < 10 THEN <<DigitChars[n + 1]>>
    ELSE Decimal(n \div 10) \o <<DigitChars[(n % 10) + 1]>>

\* The photos element that parses to the given photoList
ChildrenOf(list) ==
    [i \in 1..Len(list) |->
        Child(Some(Decimal(list[i].x)), Some(Decimal(list[i].y)),
              Some(Decimal(list[i].width)), Some(Decimal(list[i].height)),
              IF list[i].rotation = 0 THEN None ELSE Some(Decimal(list[i].rotation)))]

\* The photo element a resolved path came from
SrcOf(path) == IF path = None THEN None ELSE Some(Some(Val(path)[2]))

\* A reader as a successful construction leaves it, with the given canvas and
\* photoList: the parsed document is kept in template_xml (line 128).
ParsedReader(w, h, color, bg, fg, list) ==
    [UnsetReader(1) EXCEPT !.template_xml =
                                Some(Doc(Some(Some("strip")), None, None, None,
                                         Some(Canvas(color, Some(Decimal(h)), Some(Decimal(w)),
                                                     SrcOf(bg), SrcOf(fg),
                                                     Some(ChildrenOf(list)))))),
                           !.templateName = Some("strip"),
                           !.width = Some(w), !.height = Some(h),
                           !.backgroundColor = color,
                           !.backgroundPhoto = bg, !.foregroundPhoto = fg,
                           !.photoList = list]

SizedPlacements == {Placement(0, 0, w, h, 0) : w \in 0..MaxWidth, h \in 1..MaxHeight}

InitMaxSize ==
    /\ schemaFile = "ok" /\ dirList = <<>> /\ listError = NoExc
    /\ mpc = "direct" /\ dirIdx = 0 /\ templateList = <<>> /\ mgrRaised = NoExc
    /\ rpc = "done" /\ childIdx = 0 /\ raised = NoExc
    /\ \E list \in SeqsUpTo(SizedPlacements, MaxPhotos) :
         reader = ParsedReader(4, 4, None, None, None, list)
    /\ IdleMax /\ IdleIter /\ IdleHex /\ IdleComp

MaxSizeNext == GetMaxImageSize

SpecMaxSize == InitMaxSize /\ [][MaxSizeNext]_vars

\* C4: for placements of positive width getMaxImageSize returns the
\* (width, height) of the placement of maximal width, the first of them in
\* document order when several share it; heights are never compared.
C4_FirstWidest ==
    LET list == reader.photoList IN
    (/\ maxSize # None
     /\ Len(list) > 0
     /\ \A i \in 1..Len(list) : list[i].width > 0) =>
        \E i \in 1..Len(list) :
            /\ Val(maxSize) = <<list[i].width, list[i].height>>
            /\ \A j \in 1..Len(list) : list[j].width <= list[i].width
            /\ \A j \in 1..(i - 1) : list[j].width < list[i].width

\* Two placements share the largest width; the pair of the first was returned
\* although the second is higher.
C4_Witness ==
    /\ maxSize # None
    /\ Len(reader.photoList) = 3
    /\ reader.photoList[1].width = 1
    /\ reader.photoList[2] = Placement(0, 0, 2, 1, 0)
    /\ reader.photoList[3] = Placement(0, 0, 2, 2, 0)
    /\ Val(maxSize) = <<2, 1>>

(***************************************************************************)
(* ImageProcessor.hex_to_rgb                                               *)
(***************************************************************************)
\* int(s, 16) of a str
PyIntHex(s) == PyIntBase(s, 16)

\* value[i:i + n] with a 0-based start i: the slice ends with the string
Slice(value, i, n) ==
    SubSeq(value, i + 1, IF i + n < Len(value) THEN i + n ELSE Len(value))

\* The generator of line 287 from the 0-based position i on: the components in
\* order, or the exception of the first one that does not parse.
RECURSIVE Components(_, _, _)
Components(value, i, step) ==
    IF i >= Len(value) THEN Ok(<<>>)
    ELSE LET c == PyIntHex(Slice(value, i, step))
             rest == Components(value, i + step, step)
         IN  IF ~c.ok THEN c
             ELSE IF ~rest.ok THEN rest
             ELSE Ok(<<c.val>> \o rest.val)

\* hex_to_rgb(value): range(0, lv, lv // 3) raises a ValueError on a step of 0.
HexToRgb(value) ==
    LET v == LStrip(value, {"#"})
        lv == Len(v)
    IN  IF lv \div 3 = 0
        THEN Err(Exc("ValueError", "range() arg 3 must not be zero"))
        ELSE Components(v, 0, lv \div 3)

HexCall ==
    /\ cpc = "hex"
    /\ hexResult' = HexToRgb(hexValue)
    /\ cpc' = "hexdone"
    /\ UNCHANGED hexValue
    /\ UNCHANGED <<inputVars, mgrVars, readerVars, maxSize, iterVars>>
    /\ UNCHANGED <<files, heap, imageList, imgIdx, mImg, composite>>

MaxHexLen == 5
HexChars == {"#", "1", "f", "F", "g"}

InitHex ==
    /\ IdleManager /\ IdleReader /\ IdleMax /\ IdleIter
    /\ hexValue \in SeqsUpTo(HexChars, MaxHexLen)
    /\ hexResult = Err(NoExc)
    /\ files = <<>> /\ heap = <<>> /\ imageList = <<>>
    /\ cpc = "hex" /\ imgIdx = 0 /\ mImg = 0 /\ composite = Err(NoExc)

HexNext == HexCall

SpecHex == InitHex /\ [][HexNext]_vars

\* C6: hex_to_rgb raises for every string whose length without the leading '#'
\* is not divisible by 3, and never returns a tuple that has not 3 components.
C6_RaisesOnBadLength ==
    cpc = "hexdone" =>
        /\ Len(LStrip(hexValue, {"#"})) % 3 # 0 => ~hexResult.ok
        /\ hexResult.ok => Len(hexResult.val) = 3

(***************************************************************************)
(* Iteration over a TemplateManager                                        *)
(***************************************************************************)
MaxTemplates == 3
MaxLoops == 2
MaxLate == 2

\* __iter__: the position is an attribute of the manager, shared by every
\* loop, and the manager is its own iterator.
IterCall(c) ==
    /\ mpc = "done"
    /\ loops[c].pc = "new"
    /\ count' = Some(0)
    /\ loops' = [loops EXCEPT ![c].pc = "running"]
    /\ UNCHANGED <<inputVars, mgrVars, readerVars, maxSize, hexVars, compVars>>

\* __next__ / next (lines 81-88): the call looks at count and nothing else, so
\* a caller that already got StopIteration may call again, and gets an item
\* when another caller has reset count since.  A caller keeps in seen the
\* items of its iteration, up to its first StopIteration, and in late the
\* outcome of each call after that: the directory of the item, StopLate for
\* another StopIteration.
StopLate == 0
NextCall(c) ==
    /\ mpc = "done"
    /\ \/ loops[c].pc = "running"
       \/ loops[c].pc = "stopped" /\ Len(loops[c].late) < MaxLate
    /\ IF Val(count) < Len(templateList)
       THEN /\ loops' = IF loops[c].pc = "running"
                        THEN [loops EXCEPT ![c].seen = Append(@, templateList[Val(count) + 1])]
                        ELSE [loops EXCEPT ![c].late =
                                 Append(@, templateList[Val(count) + 1].TemplateDir)]
            /\ count' = Some(Val(count) + 1)
       ELSE /\ loops' = IF loops[c].pc = "running"
                        THEN [loops EXCEPT ![c].pc = "stopped"]
                        ELSE [loops EXCEPT ![c].late = Append(@, StopLate)]
            /\ UNCHANGED count
    /\ UNCHANGED <<inputVars, mgrVars, readerVars, maxSize, hexVars, compVars>>

\* A manager as a finished scan leaves it, and callers that have not started
InitIter ==
    /\ schemaFile = "ok" /\ dirList = <<>> /\ listError = NoExc
    /\ mpc = "done" /\ dirIdx = 0 /\ mgrRaised = NoExc
    /\ \E n \in 0..MaxTemplates :
         templateList = [i \in 1..n |->
              [ParsedReader(4, 4, None, None, None, <<>>) EXCEPT !.TemplateDir = i]]
    /\ IdleReader /\ IdleMax /\ IdleHex /\ IdleComp
    /\ count = None
    /\ loops = [c \in 1..MaxLoops |-> [pc |-> "new", seen |-> <<>>, late |-> <<>>]]

IterNext == \E c \in 1..MaxLoops : IterCall(c) \/ NextCall(c)

SpecIter == InitIter /\ [][IterNext]_vars

\* C10: every iteration over a manager yields each element of templateList
\* once, in list order, and then stops, also when another iteration over the
\* same manager is started or advanced before it has finished.
C10_IterationsIndependent ==
    \A c \in DOMAIN loops :
        /\ loops[c].pc = "stopped" => loops[c].seen = templateList
        /\ loops[c].pc = "running" =>
              \E n \in 0..Len(templateList) : loops[c].seen = SubSeq(templateList, 1, n)

(***************************************************************************)
(* PIL images                                                              *)
(*                                                                         *)
(* An image is its size, its mode and its pixels, a function from <<x, y>> *)
(* to <<r, g, b, a>> (a = 255 in mode RGB).  Image objects live in heap    *)
(* and are named by their position in it, so that an operation that works  *)
(* in place (thumbnail, paste) differs from one that returns a new image   *)
(* (convert, rotate).                                                      *)
(***************************************************************************)
Pixels(w, h) == (0..(w - 1)) \X (0..(h - 1))

\* The pixels of an image are stored values: a map is worked out once, when
\* it is made, and not again each time a pixel is read.
Stored(px) == IF px = px THEN px ELSE px

Image(w, h, mode, px) == [size |-> <<w, h>>, mode |-> mode, px |-> Stored(px)]

\* An image of one colour
Plain(w, h, mode, c) == Image(w, h, mode, [p \in Pixels(w, h) |-> c])

\* Image.new("RGB", size, color): color is a tuple of 3 or 4 components, the
\* fourth of which is dropped; any other length is a TypeError.
NewImage(size, color) ==
    IF Len(color) \in {3, 4}
    THEN Ok(Plain(size[1], size[2], "RGB", <<color[1], color[2], color[3], 255>>))
    ELSE Err(Exc("TypeError", "color must be int, or tuple of one, three or four elements"))

\* Image.open(path)
OpenImage(fs, path) ==
    IF IsNone(fs[path]) THEN Err(Exc("FileNotFoundError", "No such file or directory"))
    ELSE Ok(Val(fs[path]))

\* im.convert("RGBA"): a new image; an RGB pixel becomes opaque
ToRGBA(img) == [img EXCEPT !.mode = "RGBA"]

\* A conversion that hands back the caller's own image object.
ConvertNoCopy(h, id) == [heap |-> h, id |-> id]

\* imageList[i].convert("RGBA") on the heap: the copy is a new object
Convert(h, id) == [heap |-> Append(h, ToRGBA(h[id])), id |-> Len(h) + 1]

\* The size Image.thumbnail gives an image of size <<x, y>> for the box size:
\* never larger than the image, aspect ratio kept, at least 1 pixel.
AtLeastOne(n) == IF n < 1 THEN 1 ELSE n
ThumbnailSize(imsize, box) ==
    LET x1 == IF imsize[1] > box[1] THEN box[1] ELSE imsize[1]
        y1 == IF imsize[1] > box[1]
              THEN AtLeastOne((imsize[2] * box[1]) \div imsize[1]) ELSE imsize[2]
        x2 == IF y1 > box[2] THEN AtLeastOne((x1 * box[2]) \div y1) ELSE x1
        y2 == IF y1 > box[2] THEN box[2] ELSE y1
    IN  <<x2, y2>>

\* MULDIV255 of the imaging library: a * b / 255, rounded
MulDiv255(a, b) == ((((a * b) + 128) \div 256) + (a * b) + 128) \div 256

\* convert("RGBa"): the colour bands multiplied by alpha
Premultiplied(c) == <<MulDiv255(c[1], c[4]), MulDiv255(c[2], c[4]), MulDiv255(c[3], c[4]), c[4]>>

\* convert("RGBA") of an RGBa pixel: the colour bands divided by alpha
Clip8(v) == IF v < 0 THEN 0 ELSE IF v > 255 THEN 255 ELSE v
Straight(c) ==
    IF c[4] = 255 \/ c[4] = 0 THEN c
    ELSE <<Clip8((255 * c[1]) \div c[4]), Clip8((255 * c[2]) \div c[4]),
           Clip8((255 * c[3]) \div c[4]), c[4]>>

\* Resampling with a filter works on premultiplied alpha: an RGBA image is
\* converted to RGBa before and back after.
Filterable(mode, px) ==
    IF mode = "RGBA" THEN Stored([p \in DOMAIN px |-> Premultiplied(px[p])]) ELSE px
Filtered(mode, px) ==
    IF mode = "RGBA" THEN Stored([p \in DOMAIN px |-> Straight(px[p])]) ELSE px

\* The fixed point of the resampling coefficients, 2^22
Precision == 4194304

\* The coefficients of the Lanczos filter (Image.ANTIALIAS) that resampling
\* computes for a side of n pixels made into one of m pixels, for sides up to
\* 4: a row of n coefficients for each of the m pixels, normalised to the sum
\* Precision and rounded.  At these sizes the support of the filter covers the
\* whole side, so every row starts at the first source pixel.
LanczosKernel ==
    (<<1, 2>> :> << <<4194304>>, <<4194304>> >>) @@
    (<<1, 3>> :> << <<4194304>>, <<4194304>>, <<4194304>> >>) @@
    (<<1, 4>> :> << <<4194304>>, <<4194304>>, <<4194304>>, <<4194304>> >>) @@
    (<<2, 1>> :> << <<2097152, 2097152>> >>) @@
    (<<2, 3>> :> << <<4715023, -520719>>, <<2097152, 2097152>>, <<-520719, 4715023>> >>) @@
    (<<2, 4>> :> << <<4930311, -736007>>, <<3217574, 976730>>, <<976730, 3217574>>, <<-736007, 4930311>> >>) @@
    (<<3, 1>> :> << <<1296896, 1600512, 1296896>> >>) @@
    (<<3, 2>> :> << <<2742406, 1754765, -302866>>, <<-302866, 1754765, 2742406>> >>) @@
    (<<3, 4>> :> << <<4492385, -392563, 94482>>, <<1740598, 3039405, -585699>>, <<-585699, 3039405, 1740598>>, <<94482, -392563, 4492385>> >>) @@
    (<<4, 1>> :> << <<923235, 1173917, 1173917, 923235>> >>) @@
    (<<4, 2>> :> << <<1946964, 1946964, 591023, -290647>>, <<-290647, 591023, 1946964, 1946964>> >>) @@
    (<<4, 3>> :> << <<3177826, 1431249, -481605, 66835>>, <<-262144, 2359296, 2359296, -262144>>, <<66835, -481605, 1431249, 3177826>> >>)

RECURSIVE SumSeq(_)
SumSeq(q) == IF Len(q) = 0 THEN 0 ELSE Head(q) + SumSeq(Tail(q))

\* One band of one pixel: the weighted sum of the source values, rounded
Convolved(k, vals) ==
    Clip8(((Precision \div 2) + SumSeq([i \in 1..Len(k) |-> k[i] * vals[i]])) \div Precision)

\* The horizontal pass and the vertical pass of resampling; a side that keeps
\* its length is left alone.
ResampleX(w, h, px, nw) ==
    IF nw = w THEN px
    ELSE Stored([p \in Pixels(nw, h) |->
                    [b \in 1..4 |->
                        Convolved(LanczosKernel[<<w, nw>>][p[1] + 1],
                                  [i \in 1..w |-> px[<<i - 1, p[2]>>][b]])]])
ResampleY(w, h, px, nh) ==
    IF nh = h THEN px
    ELSE Stored([p \in Pixels(w, nh) |->
                    [b \in 1..4 |->
                        Convolved(LanczosKernel[<<h, nh>>][p[2] + 1],
                                  [i \in 1..h |-> px[<<p[1], i - 1>>][b]])]])

\* im.resize(size, Image.ANTIALIAS): the rows are resampled first, then the
\* columns of the result.
Resize(img, size) ==
    Image(size[1], size[2], img.mode,
          Filtered(img.mode,
                   ResampleY(size[1], img.size[2],
                             ResampleX(img.size[1], img.size[2],
                                       Filterable(img.mode, img.px), size[1]),
                             size[2])))

\* takenImg.thumbnail(size, Image.ANTIALIAS): the image after the call
Thumbnail(img, box) ==
    LET size == ThumbnailSize(img.size, box)
    IN  IF size = img.size THEN img ELSE Resize(img, size)

\* sin and cos of a whole number of degrees, in millionths
Unit == 1000000
SinTable == <<
    0, 17452, 34899, 52336, 69756, 87156, 104528, 121869,
    139173, 156434, 173648, 190809, 207912, 224951, 241922, 258819,
    275637, 292372, 309017, 325568, 342020, 358368, 374607, 390731,
    406737, 422618, 438371, 453990, 469472, 484810, 500000, 515038,
    529919, 544639, 559193, 573576, 587785, 601815, 615661, 629320,
    642788, 656059, 669131, 681998, 694658, 707107, 719340, 731354,
    743145, 754710, 766044, 777146, 788011, 798636, 809017, 819152,
    829038, 838671, 848048, 857167, 866025, 874620, 882948, 891007,
    898794, 906308, 913545, 920505, 927184, 933580, 939693, 945519,
    951057, 956305, 961262, 965926, 970296, 974370, 978148, 981627,
    984808, 987688, 990268, 992546, 994522, 996195, 997564, 998630,
    999391, 999848, 1000000 >>
SinDeg(a) ==
    LET d == a % 360
    IN  IF d <= 90 THEN SinTable[d + 1]
        ELSE IF d <= 180 THEN SinTable[181 - d]
        ELSE IF d <= 270 THEN 0 - SinTable[d - 179]
        ELSE 0 - SinTable[361 - d]
CosDeg(a) == SinDeg(a + 90)

Floor(v, d) == v \div d
Ceiling(v, d) == 0 - ((0 - v) \div d)

\* The affine map of a rotation by a degrees, from the output to the source:
\* x' = A x + B y + C, y' = D x + E y + F with A = E = cos and D = -B = sin.
\* Coordinates are in halves of a millionth (2 * Unit to the pixel); x and y
\* are given in half pixels.
MapX(a, x, y, c) == (CosDeg(a) * x) - (SinDeg(a) * y) + c
MapY(a, x, y, f) == (SinDeg(a) * x) + (CosDeg(a) * y) + f

\* C and F of the map that turns a w x h image about its centre
CentreX(a, w, h) == (Unit * w) - MapX(a, w, h, 0)
CentreY(a, w, h) == (Unit * h) - MapY(a, w, h, 0)

\* The size of the box around the four turned corners
Extent(S) ==
    Ceiling(CHOOSE v \in S : \A u \in S : u <= v, 2 * Unit)
    - Floor(CHOOSE v \in S : \A u \in S : v <= u, 2 * Unit)
TurnedSize(a, w, h) ==
    << Extent({MapX(a, 2 * c[1], 2 * c[2], CentreX(a, w, h)) : c \in {0, w} \X {0, h}}),
       Extent({MapY(a, 2 * c[1], 2 * c[2], CentreY(a, w, h)) : c \in {0, w} \X {0, h}}) >>

\* Where the centre of output pixel p of an nw x nh output falls in the w x h
\* source: the map is shifted so that the centres of the two images coincide
SourceX(a, w, h, nw, nh, p) ==
    MapX(a, (2 * p[1]) + 1, (2 * p[2]) + 1, CentreX(a, w, h) - MapX(a, nw - w, nh - h, 0))
SourceY(a, w, h, nw, nh, p) ==
    MapY(a, (2 * p[1]) + 1, (2 * p[2]) + 1, CentreY(a, w, h) - MapY(a, nw - w, nh - h, 0))

\* d * t / (2 * Unit), rounded down, for a difference d of two interpolated
\* values and a fraction t of a pixel (0 <= t < 2 * Unit).  The product does
\* not fit a 32 bit integer, so it is formed from the thousands and the units
\* of d and t.
Scaled(d, t) ==
    LET high == (d \div 1000) * (t \div 1000)
        mid == ((d \div 1000) * (t % 1000)) + ((d % 1000) * (t \div 1000))
        low == (d % 1000) * (t % 1000)
    IN  (high \div 2) + (mid \div 2000)
        + ((((high % 2) * 1000000) + ((mid % 2000) * 1000) + low) \div (2 * Unit))

\* BILINEAR(v, a, b, d): a + (b - a) * d, for a fraction t of a pixel; the
\* result is in units of 1 / (2 * Unit)
Lerp(a, b, t) == (a * 2 * Unit) + ((b - a) * t)

\* XCLIP and YCLIP: a coordinate brought into the image
Clamp(v, n) == IF v < 0 THEN 0 ELSE IF v >= n THEN n - 1 ELSE v

\* The bilinear filter for band b at the place (x, y) of the source, given
\* from the centre of the first pixel: the two pixels around x are
\* interpolated in the row of y and in the row below it (when there is one),
\* then the two results between the rows; the value is cut to an integer.
Bilinear(px, w, h, x, y, b) ==
    LET x0 == Clamp(Floor(x, 2 * Unit), w)
        x1 == Clamp(Floor(x, 2 * Unit) + 1, w)
        y0 == Clamp(Floor(y, 2 * Unit), h)
        y1 == IF Floor(y, 2 * Unit) + 1 < h THEN Floor(y, 2 * Unit) + 1 ELSE y0
        upper == Lerp(px[<<x0, y0>>][b], px[<<x1, y0>>][b], x % (2 * Unit))
        lower == Lerp(px[<<x0, y1>>][b], px[<<x1, y1>>][b], x % (2 * Unit))
    IN  Floor(upper + Scaled(lower - upper, y % (2 * Unit)), 2 * Unit)

\* The transform of an image into an output of the given size: an output pixel
\* whose centre falls in the source is interpolated there, any other pixel
\* stays transparent.  Sines are exact to a millionth: where the place of a
\* centre is decided by less than that (a centre on the edge of the source,
\* or an interpolated value that is a whole number), the library's floating
\* point may decide the other way.
Unfilled(mode) == IF mode = "RGBA" THEN <<0, 0, 0, 0>> ELSE <<0, 0, 0, 255>>
TransformPixel(px, w, h, x, y, fill) ==
    IF /\ x >= 0 /\ x < 2 * Unit * w
       /\ y >= 0 /\ y < 2 * Unit * h
    THEN [b \in 1..4 |-> Bilinear(px, w, h, x - Unit, y - Unit, b)]
    ELSE fill
Transform(img, a, size) ==
    LET px == Filterable(img.mode, img.px)
    IN  Image(size[1], size[2], img.mode,
              Filtered(img.mode,
                  Stored([p \in Pixels(size[1], size[2]) |->
                            TransformPixel(px, img.size[1], img.size[2],
                                           SourceX(a, img.size[1], img.size[2], size[1], size[2], p),
                                           SourceY(a, img.size[1], img.size[2], size[1], size[2], p),
                                           Unfilled(img.mode))])))

\* im.rotate(angle, Image.BILINEAR, 1) for an angle that is no multiple of 90
\* degrees: the output is as large as the box around the turned corners
RotateFree(img, a) == Transform(img, a, TurnedSize(a, img.size[1], img.size[2]))

\* im.rotate(angle, Image.BILINEAR, 1): counter-clockwise, the size following
\* the content.  A multiple of 90 degrees is a copy or a transposition, any
\* other angle a resampling.
Rotate(img, angle) ==
    LET w == img.size[1]
        h == img.size[2]
        a == angle % 360
    IN  IF a = 0 THEN img
        ELSE IF a = 90
        THEN Image(h, w, img.mode, [p \in Pixels(h, w) |-> img.px[<<w - 1 - p[2], p[1]>>]])
        ELSE IF a = 180
        THEN Image(w, h, img.mode, [p \in Pixels(w, h) |-> img.px[<<w - 1 - p[1], h - 1 - p[2]>>]])
        ELSE IF a = 270
        THEN Image(h, w, img.mode, [p \in Pixels(h, w) |-> img.px[<<p[2], h - 1 - p[1]>>]])
        ELSE RotateFree(img, a)

\* Whether img, pasted with its upper left corner at `at`, covers canvas pixel p
Covers(img, at, p) ==
    /\ p[1] - at[1] \in 0..(img.size[1] - 1)
    /\ p[2] - at[2] \in 0..(img.size[2] - 1)

Source(img, at, p) == img.px[<<p[1] - at[1], p[2] - at[2]>>]

\* One channel of a masked paste: (dst * (255 - a) + src * a) / 255, rounded
Div255(v) == (((v + 128) \div 256) + v + 128) \div 256
Blend(dst, src, a) == Div255(dst * (255 - a) + src * a)
BlendPixel(dst, src) ==
    <<Blend(dst[1], src[1], src[4]), Blend(dst[2], src[2], src[4]),
      Blend(dst[3], src[3], src[4]), 255>>

\* canvas.paste(img, at): the covered pixels are overwritten
PasteOpaque(canvas, img, at) ==
    [canvas EXCEPT !.px =
        Stored([p \in DOMAIN @ |->
                  IF Covers(img, at, p)
                  THEN <<Source(img, at, p)[1], Source(img, at, p)[2], Source(img, at, p)[3], 255>>
                  ELSE @[p]])]

\* Whether an image can be the mask of a paste: it needs an alpha band
HasAlpha(img) == img.mode = "RGBA"

\* canvas.paste(img, at, img): the covered pixels are blended by img's alpha
PasteMasked(canvas, img, at) ==
    [canvas EXCEPT !.px =
        Stored([p \in DOMAIN @ |->
                  IF Covers(img, at, p) THEN BlendPixel(@[p], Source(img, at, p)) ELSE @[p]])]

(***************************************************************************)
(* ImageProcessor.processImages, one action per layer                      *)
(***************************************************************************)
\* A processImages that pastes the overlay before the photos.
StageAfterOverlayFirst(stage) ==
    CASE stage = "canvas" -> "background"
      [] stage = "background" -> "foreground"
      [] stage = "foreground" -> "photos"
      [] stage = "photos" -> "return"

\* The order of the statements of processImages
StageAfter(stage) ==
    CASE stage = "canvas" -> "background"
      [] stage = "background" -> "photos"
      [] stage = "photos" -> "foreground"
      [] stage = "foreground" -> "return"

\* A loop over the images that were passed in.
LoopOverImages(rd, images) == Len(images)

\* range(0, len(self.template.photoList))
LoopCount(rd, images) == Len(rd.photoList)

\* An exception leaves processImages: nothing is returned
Fail(e) == /\ cpc' = "failed"
           /\ composite' = Err(e)

\* lines 249-254
CreateCanvas ==
    /\ cpc = "canvas"
    /\ LET color == IF reader.backgroundColor # None
                    THEN HexToRgb(Val(reader.backgroundColor))
                    ELSE Ok(<<0, 0, 0, 0>>)
           img == IF color.ok
                  THEN NewImage(<<Val(reader.width), Val(reader.height)>>, color.val)
                  ELSE color
       IN  IF img.ok
           THEN /\ heap' = Append(heap, img.val)
                /\ mImg' = Len(heap) + 1
                /\ cpc' = StageAfter("canvas")
                /\ UNCHANGED composite
           ELSE /\ Fail(img.exc)
                /\ UNCHANGED <<heap, mImg>>
    /\ UNCHANGED <<files, imageList, imgIdx>>
    /\ UNCHANGED <<inputVars, mgrVars, readerVars, maxSize, iterVars, hexVars>>

\* lines 257-259
PasteBackground ==
    /\ cpc = "background"
    /\ IF reader.backgroundPhoto # None
       THEN LET bgImg == OpenImage(files, Val(reader.backgroundPhoto))
            IN  IF bgImg.ok
                THEN /\ heap' = Append([heap EXCEPT ![mImg] = PasteOpaque(@, bgImg.val, <<0, 0>>)],
                                       bgImg.val)
                     /\ cpc' = StageAfter("background")
                     /\ UNCHANGED composite
                ELSE /\ Fail(bgImg.exc)
                     /\ UNCHANGED heap
       ELSE /\ cpc' = StageAfter("background")
            /\ UNCHANGED <<heap, composite>>
    /\ UNCHANGED <<files, imageList, imgIdx, mImg>>
    /\ UNCHANGED <<inputVars, mgrVars, readerVars, maxSize, iterVars, hexVars>>

\* lines 267-274: one iteration of the loop, or its end
PlacePhoto ==
    /\ cpc = "photos"
    /\ IF imgIdx >= LoopCount(reader, imageList)
       THEN /\ cpc' = StageAfter("photos")
            /\ UNCHANGED <<heap, imgIdx, composite>>
       ELSE IF imgIdx >= Len(reader.photoList) \/ imgIdx >= Len(imageList)
       THEN /\ Fail(Exc("IndexError", "list index out of range"))
            /\ UNCHANGED <<heap, imgIdx>>
       ELSE LET photoSpec == reader.photoList[imgIdx + 1]
                copy == Convert(heap, imageList[imgIdx + 1])
                shrunk == [copy.heap EXCEPT ![copy.id] =
                              Thumbnail(@, <<photoSpec.width, photoSpec.height>>)]
                turned == IF photoSpec.rotation # 0
                          THEN [heap |-> Append(shrunk, Rotate(shrunk[copy.id], photoSpec.rotation)),
                                id |-> Len(shrunk) + 1]
                          ELSE [heap |-> shrunk, id |-> copy.id]
            IN  /\ heap' = [turned.heap EXCEPT ![mImg] =
                               PasteMasked(@, turned.heap[turned.id], <<photoSpec.x, photoSpec.y>>)]
                /\ imgIdx' = imgIdx + 1
                /\ UNCHANGED <<cpc, composite>>
    /\ UNCHANGED <<files, imageList, mImg>>
    /\ UNCHANGED <<inputVars, mgrVars, readerVars, maxSize, iterVars, hexVars>>

\* lines 277-279
PasteForeground ==
    /\ cpc = "foreground"
    /\ IF reader.foregroundPhoto # None
       THEN LET fgImg == OpenImage(files, Val(reader.foregroundPhoto))
            IN  IF ~fgImg.ok
                THEN /\ Fail(fgImg.exc)
                     /\ UNCHANGED heap
                ELSE IF ~HasAlpha(fgImg.val)
                THEN /\ Fail(Exc("ValueError", "bad transparency mask"))
                     /\ heap' = Append(heap, fgImg.val)
                ELSE /\ heap' = Append([heap EXCEPT ![mImg] = PasteMasked(@, fgImg.val, <<0, 0>>)],
                                       fgImg.val)
                     /\ cpc' = StageAfter("foreground")
                     /\ UNCHANGED composite
       ELSE /\ cpc' = StageAfter("foreground")
            /\ UNCHANGED <<heap, composite>>
    /\ UNCHANGED <<files, imageList, imgIdx, mImg>>
    /\ UNCHANGED <<inputVars, mgrVars, readerVars, maxSize, iterVars, hexVars>>

\* line 281
ReturnImage ==
    /\ cpc = "return"
    /\ composite' = Ok(mImg)
    /\ cpc' = "done"
    /\ UNCHANGED <<files, heap, imageList, imgIdx, mImg>>
    /\ UNCHANGED <<inputVars, mgrVars, readerVars, maxSize, iterVars, hexVars>>

ComposeNext ==
    \/ CreateCanvas
    \/ PasteBackground
    \/ PlacePhoto
    \/ PasteForeground
    \/ ReturnImage

(***************************************************************************)
(* Inputs of processImages                                                 *)
(***************************************************************************)
MaxImages == 3
MaxPlacements == 2
CanvasWidth == 3
CanvasHeight == 2

\* The caller's photos: a red RGB photo of 4 x 2 pixels and a half-transparent
\* green RGBA photo of 2 x 2 pixels
Photos4x2 == Plain(4, 2, "RGB", <<200, 0, 0, 255>>)
Photos2x2 == Plain(2, 2, "RGBA", <<0, 200, 0, 128>>)
PhotoImages == {Photos4x2, Photos2x2}

\* Placements of a 2 x 1 box in the top row: upright, turned by 90 degrees one
\* pixel to the right, and turned by 45 degrees
BoxPlacements ==
    {Placement(0, 0, 2, 1, 0), Placement(1, 0, 2, 1, 90), Placement(0, 0, 2, 1, 45)}

BackgroundPath == Path(1, "bg.png")
ForegroundPath == Path(1, "fg.png")

\* A blue background image smaller than the canvas
BackgroundArt == Plain(2, 2, "RGB", <<0, 0, 250, 255>>)

\* An overlay as large as the canvas: opaque white at (0, 0), half-transparent
\* white at (1, 0), transparent elsewhere
OverlayArt ==
    Image(CanvasWidth, CanvasHeight, "RGBA",
          [p \in Pixels(CanvasWidth, CanvasHeight) |->
              IF p = <<0, 0>> THEN <<255, 255, 255, 255>>
              ELSE IF p = <<1, 0>> THEN <<255, 255, 255, 128>>
              ELSE <<0, 0, 0, 0>>])

\* An overlay saved without an alpha band
OverlayNoAlpha == Plain(CanvasWidth, CanvasHeight, "RGB", <<9, 9, 9, 255>>)

\* backgroundPhoto with the file it names: not set, set and missing, set and there
BackgroundCases == {<<None, None>>, <<Some(BackgroundPath), None>>,
                    <<Some(BackgroundPath), Some(BackgroundArt)>>}
ForegroundCases == {<<None, None>>, <<Some(ForegroundPath), None>>,
                    <<Some(ForegroundPath), Some(OverlayArt)>>,
                    <<Some(ForegroundPath), Some(OverlayNoAlpha)>>}
ValidColor == Some(<<"#", "f", "1", "f">>)

\* backgroundColor, background and foreground together: every pairing of the
\* art with a valid colour, two layouts without a colour, and one whose colour
\* hex_to_rgb rejects
ArtCases ==
    {<<ValidColor, bg, fg>> : bg \in BackgroundCases, fg \in ForegroundCases}
    \cup {<<None, <<None, None>>, <<None, None>>>>,
          <<None, <<Some(BackgroundPath), Some(BackgroundArt)>>,
                  <<Some(ForegroundPath), Some(OverlayArt)>>>>,
          <<Some(<<"f", "1">>), <<None, None>>, <<None, None>>>>}

InitCompose ==
    /\ schemaFile = "ok" /\ dirList = <<>> /\ listError = NoExc
    /\ mpc = "direct" /\ dirIdx = 0 /\ templateList = <<>> /\ mgrRaised = NoExc
    /\ rpc = "done" /\ childIdx = 0 /\ raised = NoExc
    /\ IdleMax /\ IdleIter /\ IdleHex
    /\ \E art \in ArtCases, list \in SeqsUpTo(BoxPlacements, MaxPlacements) :
         /\ reader = ParsedReader(CanvasWidth, CanvasHeight, art[1], art[2][1], art[3][1], list)
         /\ files = (BackgroundPath :> art[2][2]) @@ (ForegroundPath :> art[3][2])
    /\ heap \in SeqsUpTo(PhotoImages, MaxImages)
    /\ imageList = [i \in 1..Len(heap) |-> i]
    /\ cpc = "canvas" /\ imgIdx = 0 /\ mImg = 0 /\ composite = Err(NoExc)

SpecCompose == InitCompose /\ [][ComposeNext]_vars

(***************************************************************************)
(* Properties of processImages                                             *)
(***************************************************************************)
\* The colour the canvas is filled with
FillColor ==
    IF reader.backgroundColor = None THEN <<0, 0, 0, 255>>
    ELSE LET c == HexToRgb(Val(reader.backgroundColor)).val IN <<c[1], c[2], c[3], 255>>

\* What placement i draws: the caller's image i, converted, shrunk into the
\* placement's box and then rotated
Drawn(img, spec) == Rotate(Thumbnail(ToRGBA(img), <<spec.width, spec.height>>), spec.rotation)

\* The layers above the fill, bottom to top: 1 is the background, 2..n+1 are
\* the placements in document order, n+2 is the foreground.  Each is an image
\* (none when the layer is not set), a position and whether its alpha masks it.
TopLayer == Len(reader.photoList) + 2
LayerImage(k) ==
    IF k = 1
    THEN (IF reader.backgroundPhoto = None THEN None ELSE files[Val(reader.backgroundPhoto)])
    ELSE IF k = TopLayer
    THEN (IF reader.foregroundPhoto = None THEN None ELSE files[Val(reader.foregroundPhoto)])
    ELSE Some(Drawn(heap[imageList[k - 1]], reader.photoList[k - 1]))
LayerAt(k) ==
    IF k = 1 \/ k = TopLayer THEN <<0, 0>>
    ELSE <<reader.photoList[k - 1].x, reader.photoList[k - 1].y>>
LayerMasked(k) == k # 1
Layers == Stored([k \in 1..TopLayer |-> LayerImage(k)])

\* The value of canvas pixel p under the layers up to k: that of the last
\* layer that writes p, an opaque pixel replacing what is below it, a
\* transparent one leaving it, any other alpha blending into it.
RECURSIVE Visible(_, _, _)
Visible(layers, p, k) ==
    IF k = 0 THEN FillColor
    ELSE IF layers[k] = None \/ ~Covers(Val(layers[k]), LayerAt(k), p)
    THEN Visible(layers, p, k - 1)
    ELSE LET src == Source(Val(layers[k]), LayerAt(k), p)
         IN  IF ~LayerMasked(k) \/ src[4] = 255 THEN <<src[1], src[2], src[3], 255>>
             ELSE IF src[4] = 0 THEN Visible(layers, p, k - 1)
             ELSE BlendPixel(Visible(layers, p, k - 1), src)

\* C5: the layers are applied in the order fill, background (unmasked),
\* placements in document order with placement i drawn from imageList[i],
\* foreground (masked by its alpha): every pixel of the result shows the last
\* layer in that order that writes it.
C5_LayersInOrder ==
    cpc = "done" =>
        LET layers == Layers
        IN  \A p \in Pixels(CanvasWidth, CanvasHeight) :
                heap[composite.val].px[p] = Visible(layers, p, TopLayer)

\* A composite of all four kinds of layer has been returned: at (0, 0) the
\* overlay hides two placements and the background, at (1, 1) the second
\* placement (turned, from the red photo) hides the background, at (0, 1) the
\* background hides the fill, at (2, 1) the fill shows.
C5_Witness ==
    /\ cpc = "done"
    /\ reader.backgroundPhoto # None /\ reader.foregroundPhoto # None
    /\ reader.backgroundColor = ValidColor
    /\ reader.photoList = <<Placement(0, 0, 2, 1, 0), Placement(1, 0, 2, 1, 90)>>
    /\ heap[imageList[1]] = Photos4x2 /\ heap[imageList[2]] = Photos4x2
    /\ heap[composite.val].px[<<0, 0>>] = <<255, 255, 255, 255>>
    /\ heap[composite.val].px[<<1, 1>>] = <<200, 0, 0, 255>>
    /\ heap[composite.val].px[<<0, 1>>] = <<0, 0, 250, 255>>
    /\ heap[composite.val].px[<<2, 1>>] = <<15, 1, 15, 255>>

\* The canvas after the placements specs[i..] have been drawn from imgs[i..]
RECURSIVE WithPhotos(_, _, _, _)
WithPhotos(canvas, specs, imgs, i) ==
    IF i > Len(specs) THEN canvas
    ELSE WithPhotos(PasteMasked(canvas, Drawn(imgs[i], specs[i]), <<specs[i].x, specs[i].y>>),
                    specs, imgs, i + 1)

\* The composite of the layout for a list of images that all load
Rendered(imgs) ==
    LET blank == Plain(CanvasWidth, CanvasHeight, "RGB", FillColor)
        onBg == IF LayerImage(1) = None THEN blank
                ELSE PasteOpaque(blank, Val(LayerImage(1)), <<0, 0>>)
        onPhotos == WithPhotos(onBg, reader.photoList, imgs, 1)
    IN  IF LayerImage(TopLayer) = None THEN onPhotos
        ELSE PasteMasked(onPhotos, Val(LayerImage(TopLayer)), <<0, 0>>)

\* Whether the file a path names, if one is named, is there
Loadable(path) == path = None \/ files[Val(path)] # None

\* C7: with n placements, a list of at least n images is used up to image n
\* and the rest ignored (the result is that for the list cut to n); a shorter
\* list, or a background or foreground that does not load, ends the call in a
\* failure that returns no image.
C7_ImagesPairedByIndex ==
    LET n == Len(reader.photoList) IN
    /\ cpc = "done" =>
          /\ Len(imageList) >= n
          /\ Loadable(reader.backgroundPhoto) /\ Loadable(reader.foregroundPhoto)
          /\ composite.ok
          /\ heap[composite.val] =
                Rendered([i \in 1..n |-> heap[imageList[i]]])
    /\ cpc = "failed" => ~composite.ok /\ composite.exc # NoExc
    /\ cpc \notin {"done", "failed"} => ~composite.ok /\ composite.exc = NoExc
    /\ composite.exc.kind = "IndexError" => Len(imageList) < n

\* A third image was passed for two placements and a composite was returned.
C7_Witness ==
    /\ cpc = "done"
    /\ Len(reader.photoList) = 2 /\ Len(imageList) = 3
    /\ heap[imageList[3]] # heap[imageList[2]]
    /\ imgIdx = 2

\* C8: processImages changes none of its inputs at any step: the Layout, the
\* caller's list and each image of it (size, mode, pixels) stay as they were,
\* as do the files; resizing and rotation act on copies.
C8_InputsUnchanged ==
    [][/\ reader' = reader
       /\ imageList' = imageList
       /\ files' = files
       /\ \A i \in 1..Len(imageList) : heap'[imageList[i]] = heap[imageList[i]]]_vars

\* A call has returned after it shrank and turned a copy of the caller's
\* first image, which still has its size and mode.
C8_Witness ==
    /\ cpc = "done"
    /\ Len(reader.photoList) >= 1 /\ reader.photoList[1].rotation = 90
    /\ heap[imageList[1]] = Photos4x2
    /\ \E k \in (Len(imageList) + 1)..Len(heap) :
          heap[k].size = <<1, 2>> /\ heap[k].mode = "RGBA"

====
